---- MODULE Spec2Model ----
(***************************************************************************)
(* A model of the refiller service: Config.from_toml (src/src/config.py),  *)
(* RefillerClient (src/src/refiller_client.py) and the orchestrating       *)
(* coroutine main() (src/main.py).  One behaviour of Spec is one run of    *)
(* main() against one configuration document and one remote server, whose  *)
(* answers are drawn nondeterministically.                                 *)
(***************************************************************************)
EXTENDS Integers, Sequences, FiniteSets, TLC

VARIABLES
    document,   \* the configuration file main() finds at CONFIG_PATH
    pc,         \* position of main(): Idle, LoggingIn, AwaitLogin, Refilling,
                \* AwaitRefill, Cleanup or Done
    config,     \* main.config: the loaded Config, or NoConfig
    session,    \* RefillerClient.client (the aiohttp session): none/open/closed
    cookie,     \* main.cookie: the value login returned, or PyNone
    requests,   \* HTTP requests handed to the session, in order
    history,    \* calls made by main() and their completions, in order
    log,        \* records emitted through main.logger, in order
    pending,    \* exception travelling through the finally block, or NoExc
    exit        \* how main() ended: running / returned / raised

vars == <<document, pc, config, session, cookie, requests, history, log, pending, exit>>

(***************************************************************************)
(* Bounds of the model.                                                    *)
(***************************************************************************)
\* Longest server-chosen Set-Cookie value generated from CookieChars.
MaxCookieLen == 2

\* Number of method calls a direct user of RefillerClient makes (ClientSpec).
MaxClientCalls == 3

(***************************************************************************)
(* Python values.                                                          *)
(***************************************************************************)
PyNone == [py |-> "None"]
PyStr(s) == [py |-> "str", v |-> s]

\* Values a TOML document may hold besides strings.
PyInt(n) == [py |-> "int", v |-> n]
PyBool(b) == [py |-> "bool", v |-> b]
PyList(l) == [py |-> "list", v |-> l]

\* bool(x) as `not x` / `if x` use it: None, "", 0, False and [] are falsy.
Truthy(x) ==
    CASE x.py = "str" -> x.v # ""
      [] x.py = "int" -> x.v # 0
      [] x.py = "bool" -> x.v
      [] x.py = "list" -> x.v # <<>>
      [] OTHER -> FALSE

\* Outcome of a call: a returned value or a raised exception.
Return(v) == [kind |-> "return", value |-> v]
Raise(e) == [kind |-> "raise", exc |-> e]

NoExc == [type |-> "NoException", msg |-> ""]

\* Exception classes that derive from Exception; asyncio.CancelledError
\* derives from BaseException only and is not matched by `except Exception`.
ExceptionTypes ==
    {"ClientResponseError", "ClientConnectorError", "TimeoutError",
     "ValueError", "FileNotFoundError", "TOMLDecodeError"}

IsException(e) == e.type \in ExceptionTypes

\* str(e), as interpolated by the f-string of main.py line 31.
Str(e) == e.msg

(***************************************************************************)
(* Config.from_toml                                                        *)
(***************************************************************************)
CONFIG_PATH == "config.toml"

required_fields == <<"username", "password", "base_url", "med_id", "office">>

RequiredSet == {required_fields[i] : i \in 1..Len(required_fields)}

\* ", ".join(fields)
RECURSIVE Join(_)
Join(fields) ==
    IF fields = <<>> THEN ""
    ELSE IF Len(fields) = 1 THEN fields[1]
    ELSE fields[1] \o ", " \o Join(Tail(fields))

\* Variant of the comprehension that stops at the first offending field.
first_missing_or_empty_field(table) ==
    LET all == SelectSeq(required_fields,
                         LAMBDA f : f \notin DOMAIN table \/ ~Truthy(table[f]))
    IN IF all = <<>> THEN <<>> ELSE <<all[1]>>

\* The list comprehension of config.py lines 35-39, in required_fields order.
missing_or_empty_fields(table) ==
    SelectSeq(required_fields,
              LAMBDA f : f \notin DOMAIN table \/ ~Truthy(table[f]))

\* Variant of the constructor call with two keyword arguments exchanged.
ConfigSwapped(table) ==
    [username |-> table["password"],
     password |-> table["username"],
     base_url |-> table["base_url"],
     med_id   |-> table["med_id"],
     office   |-> table["office"]]

\* The dataclass constructor call of config.py lines 48-54.
Config(table) ==
    [username |-> table["username"],
     password |-> table["password"],
     base_url |-> table["base_url"],
     med_id   |-> table["med_id"],
     office   |-> table["office"]]

\* Variant of from_toml whose file-not-found message lacks the path.
from_toml_no_path(doc) ==
    IF ~doc.exists
    THEN Raise([type |-> "FileNotFoundError", msg |-> "Config file not found"])
    ELSE IF ~doc.parses
    THEN Raise([type |-> "TOMLDecodeError", msg |-> "Invalid statement"])
    ELSE IF missing_or_empty_fields(doc.table) # <<>>
    THEN Raise([type |-> "ValueError",
                msg |-> "Missing or empty required fields in config file: "
                        \o Join(missing_or_empty_fields(doc.table))])
    ELSE Return(Config(doc.table))

\* Config.from_toml(path), for the file `doc` found at the path
\* (config.py lines 18-56).
from_toml(doc) ==
    IF ~doc.exists
    THEN Raise([type |-> "FileNotFoundError",
                msg |-> "Config file not found at " \o doc.path])
    ELSE IF ~doc.parses
    THEN Raise([type |-> "TOMLDecodeError", msg |-> "Invalid statement"])
    ELSE IF missing_or_empty_fields(doc.table) # <<>>
    THEN Raise([type |-> "ValueError",
                msg |-> "Missing or empty required fields in config file: "
                        \o Join(missing_or_empty_fields(doc.table))])
    ELSE Return(Config(doc.table))

NoConfig == [username |-> PyNone, password |-> PyNone, base_url |-> PyNone,
             med_id |-> PyNone, office |-> PyNone]

(***************************************************************************)
(* The remote server and the network, as the aiohttp session reports them. *)
(***************************************************************************)
CookieChars == {"s", "="}

RECURSIVE StringsUpTo(_)
StringsUpTo(n) ==
    IF n = 0 THEN {""}
    ELSE StringsUpTo(n - 1) \cup
         {s \o c : s \in StringsUpTo(n - 1), c \in CookieChars}

\* Set-Cookie values a server may send, the empty value included.
CookieValues == StringsUpTo(MaxCookieLen) \cup {"s=1", "session_id=abc123"}

\* Response headers: Set-Cookie absent, or present with one of the values.
HeaderSets == {<<>>} \cup {("Set-Cookie" :> c) : c \in CookieValues}

\* Status codes on both sides of every class boundary.
StatusCodes == {100, 101, 199, 200, 201, 204, 299, 300, 301, 302, 399,
                400, 401, 404, 499, 500, 503, 599}

Responses == [net : {"response"}, status : StatusCodes, headers : HeaderSets]

\* session.post(...) raising instead of yielding a response: connection
\* refused, timeout, or the awaiting task being cancelled.
TransportErrors ==
    {[type |-> "ClientConnectorError", msg |-> "Cannot connect to host"],
     [type |-> "TimeoutError", msg |-> ""],
     [type |-> "CancelledError", msg |-> ""]}

Failures == {[net |-> "error", exc |-> e] : e \in TransportErrors}

\* Everything `async with self.client.post(...) as response` may produce.
PostOutcomes == Responses \cup Failures

\* response.headers.get(name)
HeadersGet(headers, name) ==
    IF name \in DOMAIN headers THEN PyStr(headers[name]) ELSE PyNone

(***************************************************************************)
(* RefillerClient                                                          *)
(***************************************************************************)
FORM_URLENCODED == "application/x-www-form-urlencoded"

\* Variants of raise_for_status with another threshold.
raise_for_status_5xx(response) ==
    IF response.status >= 500
    THEN [type |-> "ClientResponseError",
          msg |-> ToString(response.status) \o ", message=''"]
    ELSE NoExc

raise_for_status_non2xx(response) ==
    IF response.status < 200 \/ response.status >= 300
    THEN [type |-> "ClientResponseError",
          msg |-> ToString(response.status) \o ", message=''"]
    ELSE NoExc

\* aiohttp ClientResponse.raise_for_status(): raises ClientResponseError
\* when the status is 400 or above, and does nothing otherwise.
raise_for_status(response) ==
    IF response.status >= 400
    THEN [type |-> "ClientResponseError",
          msg |-> ToString(response.status) \o ", message=''"]
    ELSE NoExc

\* Variant of the login request that leaves redirect following enabled.
login_request_redirects(base_url, username, password, office) ==
    [method |-> "POST",
     url |-> base_url.v \o "/login",
     data |-> [office |-> office, username |-> username, password |-> password],
     headers |-> ("Content-Type" :> PyStr(FORM_URLENCODED)),
     allow_redirects |-> TRUE]

\* The request login() hands to the session (refiller_client.py 13-27).
login_request(base_url, username, password, office) ==
    [method |-> "POST",
     url |-> base_url.v \o "/login",
     data |-> [office |-> office, username |-> username, password |-> password],
     headers |-> ("Content-Type" :> PyStr(FORM_URLENCODED)),
     allow_redirects |-> FALSE]

\* Variant of login without the check of line 30.
login_unchecked(outcome) ==
    IF outcome.net = "error" THEN Raise(outcome.exc)
    ELSE IF raise_for_status(outcome) # NoExc
    THEN Raise(raise_for_status(outcome))
    ELSE Return(HeadersGet(outcome.headers, "Set-Cookie"))

\* Variant of login whose check of line 30 is `cookie is None`.
login_none_check(outcome) ==
    IF outcome.net = "error" THEN Raise(outcome.exc)
    ELSE IF raise_for_status(outcome) # NoExc
    THEN Raise(raise_for_status(outcome))
    ELSE IF HeadersGet(outcome.headers, "Set-Cookie") = PyNone
    THEN Raise([type |-> "ValueError",
                msg |-> "Login failed: No session cookie received"])
    ELSE Return(HeadersGet(outcome.headers, "Set-Cookie"))

\* Variant of login that reads the header "Cookie".
login_wrong_header(outcome) ==
    IF outcome.net = "error" THEN Raise(outcome.exc)
    ELSE IF raise_for_status(outcome) # NoExc
    THEN Raise(raise_for_status(outcome))
    ELSE IF ~Truthy(HeadersGet(outcome.headers, "Cookie"))
    THEN Raise([type |-> "ValueError",
                msg |-> "Login failed: No session cookie received"])
    ELSE Return(HeadersGet(outcome.headers, "Cookie"))

\* What login() does with the outcome of its POST (refiller_client.py 20-32).
login(outcome) ==
    IF outcome.net = "error" THEN Raise(outcome.exc)
    ELSE IF raise_for_status(outcome) # NoExc
    THEN Raise(raise_for_status(outcome))
    ELSE IF ~Truthy(HeadersGet(outcome.headers, "Set-Cookie"))
    THEN Raise([type |-> "ValueError",
                msg |-> "Login failed: No session cookie received"])
    ELSE Return(HeadersGet(outcome.headers, "Set-Cookie"))

\* The request request_refill() hands to the session (refiller_client.py 35-49).
refill_request(base_url, cookie_arg, med) ==
    [method |-> "POST",
     url |-> base_url.v \o "/msgs/newmsg",
     data |-> [meds |-> med, subject |-> PyStr("R"), reply |-> PyStr(""),
               type |-> PyStr("R"), msg |-> PyStr("")],
     headers |-> ("Content-Type" :> PyStr(FORM_URLENCODED)) @@ ("Cookie" :> cookie_arg),
     allow_redirects |-> TRUE]

\* Variant of request_refill that accepts the whole 2xx range.
request_refill_2xx(outcome) ==
    IF outcome.net = "error" THEN Raise(outcome.exc)
    ELSE IF raise_for_status(outcome) # NoExc
    THEN Raise(raise_for_status(outcome))
    ELSE Return(outcome.status >= 200 /\ outcome.status < 300)

\* What request_refill() does with the outcome of its POST
\* (refiller_client.py 47-51).
request_refill(outcome) ==
    IF outcome.net = "error" THEN Raise(outcome.exc)
    ELSE IF raise_for_status(outcome) # NoExc
    THEN Raise(raise_for_status(outcome))
    ELSE Return(outcome.status = 200)

\* close(): awaits self.client.close(), which releases the session.
close(s) == "closed"

(***************************************************************************)
(* Configuration documents main() may find.                                *)
(***************************************************************************)
Absent == [py |-> "absent"]

\* A value for each required key, as in the end-to-end scenario.
SampleValue ==
    [username |-> "u", password |-> "p", base_url |-> "http://x",
     med_id |-> "aspirin", office |-> "o1", extra |-> "ignored"]

AllKeys == RequiredSet \cup {"extra"}

\* Per key: not in the file, present and empty, present and non-empty.
KeyChoices(k) ==
    IF k = "extra" THEN {Absent, PyStr(SampleValue[k])}
    ELSE {Absent, PyStr(""), PyStr(SampleValue[k])}

Table(choice) ==
    [k \in {x \in AllKeys : choice[x] # Absent} |-> choice[k]]

Tables == {Table(choice) :
             choice \in {c \in [AllKeys -> UNION {KeyChoices(k) : k \in AllKeys}] :
                           \A k \in AllKeys : c[k] \in KeyChoices(k)}}

Documents ==
    {[path |-> CONFIG_PATH, exists |-> FALSE, parses |-> FALSE, table |-> <<>>],
     [path |-> CONFIG_PATH, exists |-> TRUE, parses |-> FALSE, table |-> <<>>]}
    \cup {[path |-> CONFIG_PATH, exists |-> TRUE, parses |-> TRUE, table |-> t] :
            t \in Tables}

(***************************************************************************)
(* main()                                                                  *)
(***************************************************************************)
Info(m) == [level |-> "INFO", msg |-> m]
Error(m) == [level |-> "ERROR", msg |-> m]

MSG_START == "Starting refiller service..."
MSG_LOGIN == "Logging in to retrieve session cookie..."
MSG_LOGGED_IN == "Login successful, requesting medication refill..."
MSG_REFILL_OK == "Medication refill request successful!"
MSG_REFILL_FAILED == "Medication refill request failed..."

\* Variant of the handler that matches aiohttp.ClientError only.
CaughtClientErrorOnly(e) ==
    e.type \in {"ClientResponseError", "ClientConnectorError"}

\* main.py line 30: the handler of the try block matches Exception.
Caught(e) == IsException(e)

\* main.py lines 30-32: the log record written by the handler.
HandlerRecord(e) == Error("Login failed: " \o Str(e))

Init ==
    /\ document \in Documents
    /\ pc = "Idle"
    /\ config = NoConfig
    /\ session = "none"
    /\ cookie = PyNone
    /\ requests = <<>>
    /\ history = <<>>
    /\ log = <<>>
    /\ pending = NoExc
    /\ exit = [kind |-> "running"]

\* Positions of the history holding event ev, and how many there are.
Positions(ev) == {i \in DOMAIN history : history[i].ev = ev}
Count(ev) == Cardinality(Positions(ev))

\* Variant of the try statement that goes back to login once after a
\* caught exception.
HandleRetry(e) ==
    IF Caught(e) /\ Count("login") < 2
    THEN /\ pc' = "LoggingIn"
         /\ log' = Append(log, HandlerRecord(e))
         /\ pending' = NoExc
    ELSE /\ pc' = "Cleanup"
         /\ log' = log
         /\ pending' = e

\* Variant of the try statement without the finally clause: the handler's
\* return leaves main() at once.
HandleNoFinally(e) ==
    IF Caught(e)
    THEN /\ pc' = "Done"
         /\ log' = Append(log, HandlerRecord(e))
         /\ pending' = NoExc
    ELSE /\ pc' = "Cleanup"
         /\ log' = log
         /\ pending' = e

\* Variant of the try statement with one handler per call: an exception
\* raised while the refill is awaited is logged as a refill failure.
HandlePerCall(e) ==
    /\ pc' = "Cleanup"
    /\ IF Caught(e)
       THEN /\ log' = Append(log,
                   IF pc = "AwaitRefill"
                   THEN Error("Refill failed: " \o Str(e))
                   ELSE HandlerRecord(e))
            /\ pending' = NoExc
       ELSE /\ log' = log
            /\ pending' = e

\* What the try statement does with an exception raised in its body
\* (main.py lines 30-34): a caught one is logged and main returns through the
\* finally block; any other travels through the finally block.
Handle(e) ==
    /\ pc' = "Cleanup"
    /\ IF Caught(e)
       THEN /\ log' = Append(log, HandlerRecord(e))
            /\ pending' = NoExc
       ELSE /\ log' = log
            /\ pending' = e

\* Variant of the prologue whose configuration load sits inside the try
\* statement.
LoadConfigInsideTry ==
    /\ pc = "Idle"
    /\ LET r == from_toml(document) IN
       IF r.kind = "raise"
       THEN /\ history' = Append(history, [ev |-> "from_toml", result |-> r])
            /\ pc' = "Cleanup"
            /\ log' = log \o <<Info(MSG_START), HandlerRecord(r.exc)>>
            /\ UNCHANGED <<config, session>>
       ELSE /\ history' = history \o
                   <<[ev |-> "from_toml", result |-> r],
                     [ev |-> "RefillerClient", base_url |-> r.value.base_url]>>
            /\ config' = r.value
            /\ session' = "open"
            /\ pc' = "LoggingIn"
            /\ log' = Append(log, Info(MSG_START))
    /\ UNCHANGED <<document, cookie, requests, pending, exit>>

\* main.py lines 16-19: log, load the configuration, construct the client.
LoadConfig ==
    /\ pc = "Idle"
    /\ log' = Append(log, Info(MSG_START))
    /\ LET r == from_toml(document) IN
       IF r.kind = "raise"
       THEN /\ history' = Append(history, [ev |-> "from_toml", result |-> r])
            /\ exit' = [kind |-> "raised", exc |-> r.exc]
            /\ pc' = "Done"
            /\ UNCHANGED <<config, session>>
       ELSE /\ history' = history \o
                   <<[ev |-> "from_toml", result |-> r],
                     [ev |-> "RefillerClient", base_url |-> r.value.base_url]>>
            /\ config' = r.value
            /\ session' = "open"
            /\ pc' = "LoggingIn"
            /\ exit' = exit
    /\ UNCHANGED <<document, cookie, requests, pending>>

\* Variant of the login call that does not await the coroutine: main() goes
\* on to the refill while the login request is in flight.
LoginCallNotAwaited ==
    /\ pc = "LoggingIn"
    /\ log' = Append(log, Info(MSG_LOGIN))
    /\ history' = Append(history,
           [ev |-> "login",
            args |-> <<config.username, config.password, config.office>>])
    /\ requests' = Append(requests,
           login_request(config.base_url, config.username, config.password,
                         config.office))
    /\ pc' = "Refilling"
    /\ UNCHANGED <<document, config, session, cookie, pending, exit>>

\* main.py lines 22-23 up to the await: login() posts its request.
LoginCall ==
    /\ pc = "LoggingIn"
    /\ log' = Append(log, Info(MSG_LOGIN))
    /\ history' = Append(history,
           [ev |-> "login",
            args |-> <<config.username, config.password, config.office>>])
    /\ requests' = Append(requests,
           login_request(config.base_url, config.username, config.password,
                         config.office))
    /\ pc' = "AwaitLogin"
    /\ UNCHANGED <<document, config, session, cookie, pending, exit>>

\* main.py lines 23-24 and 30-32: login() completes with some outcome of its POST.
LoginComplete ==
    /\ pc = "AwaitLogin"
    /\ \E outcome \in PostOutcomes :
         LET r == login(outcome) IN
         /\ history' = Append(history,
                [ev |-> "login_done", outcome |-> outcome, result |-> r])
         /\ IF r.kind = "return"
            THEN /\ cookie' = r.value
                 /\ log' = Append(log, Info(MSG_LOGGED_IN))
                 /\ pc' = "Refilling"
                 /\ pending' = pending
            ELSE /\ cookie' = cookie
                 /\ Handle(r.exc)
    /\ UNCHANGED <<document, config, session, requests, exit>>

\* Variant of the refill call with its two arguments exchanged.
RefillCallSwapped ==
    /\ pc = "Refilling"
    /\ history' = Append(history,
           [ev |-> "request_refill", args |-> <<config.med_id, cookie>>])
    /\ requests' = Append(requests,
           refill_request(config.base_url, config.med_id, cookie))
    /\ pc' = "AwaitRefill"
    /\ UNCHANGED <<document, config, session, cookie, log, pending, exit>>

\* main.py line 25 up to the await: request_refill() posts its request.
RefillCall ==
    /\ pc = "Refilling"
    /\ history' = Append(history,
           [ev |-> "request_refill", args |-> <<cookie, config.med_id>>])
    /\ requests' = Append(requests,
           refill_request(config.base_url, cookie, config.med_id))
    /\ pc' = "AwaitRefill"
    /\ UNCHANGED <<document, config, session, cookie, log, pending, exit>>

\* Variant of the completion of request_refill that logs the success message
\* whenever the call returns, whatever it returns.
RefillCompleteAlwaysOk ==
    /\ pc = "AwaitRefill"
    /\ \E outcome \in PostOutcomes :
         LET r == request_refill(outcome) IN
         /\ history' = Append(history,
                [ev |-> "request_refill_done", outcome |-> outcome, result |-> r])
         /\ IF r.kind = "return"
            THEN /\ log' = Append(log, Info(MSG_REFILL_OK))
                 /\ pc' = "Cleanup"
                 /\ pending' = pending
            ELSE Handle(r.exc)
    /\ UNCHANGED <<document, config, session, cookie, requests, exit>>

\* main.py lines 25-32: request_refill() completes with some outcome of its POST.
RefillComplete ==
    /\ pc = "AwaitRefill"
    /\ \E outcome \in PostOutcomes :
         LET r == request_refill(outcome) IN
         /\ history' = Append(history,
                [ev |-> "request_refill_done", outcome |-> outcome, result |-> r])
         /\ IF r.kind = "return"
            THEN /\ log' = Append(log, IF r.value THEN Info(MSG_REFILL_OK)
                                       ELSE Error(MSG_REFILL_FAILED))
                 /\ pc' = "Cleanup"
                 /\ pending' = pending
            ELSE Handle(r.exc)
    /\ UNCHANGED <<document, config, session, cookie, requests, exit>>

\* Variant of the epilogue that closes the client after the try statement
\* instead of in a finally block: an escaping exception skips it.
CleanupUnlessRaised ==
    /\ pc = "Cleanup"
    /\ IF pending = NoExc
       THEN /\ history' = Append(history, [ev |-> "close"])
            /\ session' = close(session)
       ELSE UNCHANGED <<history, session>>
    /\ exit' = IF pending = NoExc THEN [kind |-> "returned"]
               ELSE [kind |-> "raised", exc |-> pending]
    /\ pending' = NoExc
    /\ pc' = "Done"
    /\ UNCHANGED <<document, config, cookie, requests, log>>

\* main.py lines 33-34: the finally block closes the client; then main()
\* returns, or the exception that was not caught leaves main().
Cleanup ==
    /\ pc = "Cleanup"
    /\ history' = Append(history, [ev |-> "close"])
    /\ session' = close(session)
    /\ exit' = IF pending = NoExc THEN [kind |-> "returned"]
               ELSE [kind |-> "raised", exc |-> pending]
    /\ pending' = NoExc
    /\ pc' = "Done"
    /\ UNCHANGED <<document, config, cookie, requests, log>>

Next ==
    \/ LoadConfig
    \/ LoginCall
    \/ LoginComplete
    \/ RefillCall
    \/ RefillComplete
    \/ Cleanup

Spec == Init /\ [][Next]_vars

(***************************************************************************)
(* Properties of main()                                                    *)
(***************************************************************************)
\* Completions of login / request_refill recorded so far.
LoginDone == {history[i] : i \in Positions("login_done")}
RefillDone == {history[i] : i \in Positions("request_refill_done")}
CallsDone == LoginDone \cup RefillDone

Raised(d) == d.result.kind = "raise"
Returned(d) == d.result.kind = "return"

\* C1: in every run that constructed the RefillerClient, close() is called
\* at most once while main() runs and exactly once by the time main() has
\* ended, whichever way it ended.
C1_CloseExactlyOnce ==
    /\ Count("close") <= 1
    /\ (pc = "Done" /\ Count("RefillerClient") > 0) => Count("close") = 1

\* A run that logged in, whose request_refill raised, and that has ended
\* with the client closed once.
C1_Witness ==
    /\ pc = "Done"
    /\ \E d \in RefillDone : Raised(d)
    /\ Count("close") = 1

\* C2: request_refill is called only after login returned a non-empty
\* credential, and never in a run whose login raised.
C2_RefillOnlyAfterCredential ==
    /\ \A i \in Positions("request_refill") :
         \E j \in Positions("login_done") :
            /\ j < i
            /\ Returned(history[j])
            /\ history[j].result.value.py = "str"
            /\ history[j].result.value.v # ""
    /\ (\E d \in LoginDone : Raised(d)) => Count("request_refill") = 0

\* request_refill has been called in this run.
C2_Witness ==
    /\ Count("request_refill") = 1
    /\ \E d \in LoginDone : Returned(d)

\* The error kinds C3 names: HTTP, authentication, network.
NamedErrorTypes ==
    {"ClientResponseError", "ValueError", "ClientConnectorError", "TimeoutError"}

\* C3: an HTTP, authentication or network error raised by login or by
\* request_refill is logged at ERROR level with its message and does not
\* leave main(): main() returns normally.
C3_ErrorsCaughtAndLogged ==
    \A d \in CallsDone :
        (Raised(d) /\ d.result.exc.type \in NamedErrorTypes) =>
            /\ \E k \in DOMAIN log :
                  /\ log[k].level = "ERROR"
                  /\ log[k].msg = "Login failed: " \o d.result.exc.msg
            /\ exit.kind # "raised"
            /\ pending = NoExc
            /\ pc = "Done" => exit.kind = "returned"

\* login raised the authentication error and main() has returned.
C3_Witness ==
    /\ pc = "Done"
    /\ exit.kind = "returned"
    /\ \E d \in LoginDone : Raised(d) /\ d.result.exc.type = "ValueError"

\* C4: when Config.from_toml raises, the exception leaves main() and nothing
\* else happens: no client, no login, no request_refill, no close, no request.
C4_ConfigErrorPropagates ==
    \A i \in Positions("from_toml") :
        Raised(history[i]) =>
            /\ pc = "Done"
            /\ exit = [kind |-> "raised", exc |-> history[i].result.exc]
            /\ session = "none"
            /\ requests = <<>>
            /\ Len(history) = 1
            /\ \A k \in DOMAIN log : log[k].level # "ERROR"

\* Config.from_toml has raised for a document that lacks required fields.
C4_Witness ==
    /\ exit.kind = "raised"
    /\ exit.exc.type = "ValueError"
    /\ Count("RefillerClient") = 0

\* C5: login and request_refill are each called at most once in a run.
C5_AtMostOneAttempt ==
    /\ Count("login") <= 1
    /\ Count("request_refill") <= 1

\* A run has ended after login failed, with one login call made.
C5_Witness ==
    /\ pc = "Done"
    /\ \E d \in LoginDone : Raised(d)
    /\ Count("login") = 1

(***************************************************************************)
(* Properties of RefillerClient.login and RefillerClient.request_refill    *)
(***************************************************************************)
IsResponse(d) == d.outcome.net = "response"
HttpError(d) == Raised(d) /\ d.result.exc.type = "ClientResponseError"

\* The Set-Cookie header of a completed login is present and non-empty.
HasCookie(d) ==
    /\ "Set-Cookie" \in DOMAIN d.outcome.headers
    /\ d.outcome.headers["Set-Cookie"] # ""

\* C6: whenever request_refill returns, it returns True if and only if the
\* response status is exactly 200.
C6_TrueIffStatus200 ==
    \A d \in RefillDone :
        Returned(d) => (d.result.value <=> (IsResponse(d) /\ d.outcome.status = 200))

\* request_refill has returned False for a 2xx status other than 200.
C6_Witness ==
    \E d \in RefillDone :
        /\ Returned(d)
        /\ d.outcome.status = 201
        /\ d.result.value = FALSE

\* C7: when the login response has a status that is not an error status
\* (below 400, the 2xx range included) and a non-empty Set-Cookie header,
\* login returns that header value unchanged, and main() holds it as cookie.
C7_LoginReturnsCookieVerbatim ==
    \A d \in LoginDone :
        (IsResponse(d) /\ d.outcome.status < 400 /\ HasCookie(d)) =>
            /\ d.result = [kind |-> "return",
                           value |-> [py |-> "str",
                                      v |-> d.outcome.headers["Set-Cookie"]]]
            /\ cookie = d.result.value

\* login has returned for a 200 response carrying Set-Cookie: session_id=abc123.
C7_Witness ==
    \E d \in LoginDone :
        /\ IsResponse(d)
        /\ d.outcome.status = 200
        /\ d.outcome.headers = ("Set-Cookie" :> "session_id=abc123")
        /\ cookie = [py |-> "str", v |-> "session_id=abc123"]

\* C8: when the login response has a status that is not an error status but
\* no Set-Cookie header, or an empty one, login raises the "No session cookie
\* received" error and main() holds no credential.
C8_NoCookieIsAuthenticationError ==
    \A d \in LoginDone :
        (IsResponse(d) /\ d.outcome.status < 400 /\ ~HasCookie(d)) =>
            /\ d.result = [kind |-> "raise",
                           exc |-> [type |-> "ValueError",
                                    msg |-> "Login failed: No session cookie received"]]
            /\ cookie = PyNone

\* login has completed for a 200 response whose Set-Cookie header is empty.
C8_Witness ==
    \E d \in LoginDone :
        /\ IsResponse(d)
        /\ d.outcome.status = 200
        /\ d.outcome.headers = ("Set-Cookie" :> "")
        /\ Raised(d)

\* C9: for every response status of 400 or above, login and request_refill
\* raise the HTTP error, whatever headers the response carries.
C9_ErrorStatusRaisesHttpError ==
    \A d \in CallsDone :
        (IsResponse(d) /\ d.outcome.status >= 400) => HttpError(d)

\* login has raised the HTTP error for a 404 response although the response
\* carried a non-empty Set-Cookie header, and main() has ended without a
\* credential.
C9_Witness ==
    \E d \in LoginDone :
        /\ IsResponse(d)
        /\ d.outcome.status = 404
        /\ HasCookie(d)
        /\ HttpError(d)
        /\ cookie = PyNone
        /\ pc = "Done"

\* C10 as stated: every response whose status is outside 200..299 makes
\* login and request_refill raise.
C10_Non2xxAlwaysFails ==
    \A d \in CallsDone :
        (IsResponse(d) /\ (d.outcome.status < 200 \/ d.outcome.status > 299))
            => Raised(d)

\* C10 amended: a response with a status outside 200..299 makes the call
\* raise the HTTP error exactly when the status is 400 or above; a call
\* returns a value only for a response with a status below 400; and for
\* every status below 400 request_refill returns, and login returns when the
\* Set-Cookie header is non-empty.
C10_OnlyErrorStatusFails ==
    /\ \A d \in CallsDone :
          (IsResponse(d) /\ (d.outcome.status < 200 \/ d.outcome.status > 299))
              => (HttpError(d) <=> d.outcome.status >= 400)
    /\ \A d \in CallsDone :
          Returned(d) => (IsResponse(d) /\ d.outcome.status < 400)
    /\ \A d \in RefillDone :
          (IsResponse(d) /\ d.outcome.status < 400) => Returned(d)
    /\ \A d \in LoginDone :
          (IsResponse(d) /\ d.outcome.status < 400 /\ HasCookie(d)) => Returned(d)

\* login has returned the credential of a 301 response, and request_refill
\* has then returned for a 1xx response.
C10_Witness ==
    /\ \E d \in LoginDone :
          /\ IsResponse(d) /\ d.outcome.status = 301 /\ Returned(d)
    /\ \E d \in RefillDone :
          /\ IsResponse(d) /\ d.outcome.status = 101 /\ Returned(d)

(***************************************************************************)
(* Outcome reporting of main()                                             *)
(***************************************************************************)
Logged(rec) == \E k \in DOMAIN log : log[k] = rec

\* C11: when login succeeded and request_refill returned, main() has logged
\* the success message exactly if the value is True and the failure message
\* (at ERROR level) exactly if it is False, and main() ends by returning.
C11_LogMatchesRefillResult ==
    \A d \in RefillDone :
        Returned(d) =>
            /\ Logged([level |-> "INFO",
                       msg |-> "Medication refill request successful!"])
                  <=> (d.result.value = TRUE)
            /\ Logged([level |-> "ERROR",
                       msg |-> "Medication refill request failed..."])
                  <=> (d.result.value = FALSE)
            /\ exit.kind # "raised"
            /\ pending = NoExc
            /\ pc = "Done" => exit.kind = "returned"

\* main() has returned after request_refill returned False and the failure
\* message was logged.
C11_Witness ==
    /\ pc = "Done"
    /\ exit.kind = "returned"
    /\ \E d \in RefillDone : Returned(d) /\ d.result.value = FALSE
    /\ log[Len(log)].level = "ERROR"

(***************************************************************************)
(* Data flow and ordering in main()                                        *)
(***************************************************************************)
\* C17: whenever request_refill is called, its credential argument and the
\* Cookie header of its request are the value login returned in this run,
\* and its medication argument and the meds field are the med_id of the
\* configuration document.
C17_RefillArgumentsVerbatim ==
    \A i \in Positions("request_refill") :
        \E j \in Positions("login_done") :
            /\ j < i
            /\ history[j].result.kind = "return"
            /\ history[i].args[1] = history[j].result.value
            /\ history[i].args[1].v = history[j].outcome.headers["Set-Cookie"]
            /\ history[i].args[2] = document.table["med_id"]
            /\ requests[Len(requests)].headers["Cookie"] = history[j].result.value
            /\ requests[Len(requests)].data.meds = document.table["med_id"]

\* request_refill has been called with the credential session_id=abc123
\* that login returned, for the medication aspirin.
C17_Witness ==
    \E i \in Positions("request_refill") :
        /\ history[i].args = <<[py |-> "str", v |-> "session_id=abc123"],
                               [py |-> "str", v |-> "aspirin"]>>
        /\ Len(requests) = 2

StrValue(s) == [py |-> "str", v |-> s]

\* C18: every request handed to the session is the login request of the
\* login call (POST base_url/login, form fields office, username, password
\* bound to the arguments, form-url-encoded, redirects not followed) or the
\* refill request of the request_refill call (POST base_url/msgs/newmsg,
\* form fields meds, subject "R", reply "", type "R", msg "", form-url-encoded,
\* Cookie header equal to the credential argument).
C18_RequestShapes ==
    /\ Len(requests) = Count("login") + Count("request_refill")
    /\ \A i \in Positions("login") :
          requests[1] =
              [method |-> "POST",
               url |-> document.table["base_url"].v \o "/login",
               data |-> [office |-> history[i].args[3],
                         username |-> history[i].args[1],
                         password |-> history[i].args[2]],
               headers |-> ("Content-Type" :> StrValue("application/x-www-form-urlencoded")),
               allow_redirects |-> FALSE]
    /\ \A i \in Positions("request_refill") :
          /\ requests[2].method = "POST"
          /\ requests[2].url = document.table["base_url"].v \o "/msgs/newmsg"
          /\ requests[2].data =
                 [meds |-> history[i].args[2], subject |-> StrValue("R"),
                  reply |-> StrValue(""), type |-> StrValue("R"), msg |-> StrValue("")]
          /\ DOMAIN requests[2].headers = {"Content-Type", "Cookie"}
          /\ requests[2].headers["Content-Type"] =
                 StrValue("application/x-www-form-urlencoded")
          /\ requests[2].headers["Cookie"] = history[i].args[1]

\* Both requests have been sent: the login request with the configured
\* username, password and office, then the refill request.
C18_Witness ==
    /\ Len(requests) = 2
    /\ requests[1].data.username = StrValue("u")
    /\ requests[1].data.password = StrValue("p")
    /\ requests[1].data.office = StrValue("o1")
    /\ requests[2].url = "http://x/msgs/newmsg"

\* Place of each event in a run of main().
Rank(ev) ==
    CASE ev = "from_toml" -> 1
      [] ev = "RefillerClient" -> 2
      [] ev = "login" -> 3
      [] ev = "login_done" -> 4
      [] ev = "request_refill" -> 5
      [] ev = "request_refill_done" -> 6
      [] ev = "close" -> 7

\* C19: the events of a run occur in the order configuration load, client
\* construction, login call, login completion, refill call, refill
\* completion, close, each at most once; a call is made only after the
\* previous one has completed; and once the client is closed no further
\* request is handed to the session.
C19_EventsOrdered ==
    /\ [](/\ \A i, j \in DOMAIN history :
                i < j => Rank(history[i].ev) < Rank(history[j].ev)
          /\ \A i \in DOMAIN history :
                Rank(history[i].ev) \in 2..6 =>
                    /\ i > 1
                    /\ Rank(history[i - 1].ev) = Rank(history[i].ev) - 1
          /\ Count("close") = 1 => Count("login_done") = 1
          /\ Len(requests) = Count("login") + Count("request_refill"))
    /\ [][session = "closed" => requests' = requests]_vars

\* A complete run: all seven events have occurred.
C19_Witness ==
    /\ Len(history) = 7
    /\ history[7].ev = "close"
    /\ history[5].ev = "request_refill"
    /\ session = "closed"

(***************************************************************************)
(* Termination of main()                                                   *)
(***************************************************************************)
\* The event loop keeps running main(), and every POST that was started
\* eventually yields a response or raises.
FairSpec == Spec /\ WF_vars(Next)

\* C20: every run of main() eventually ends, and a run that constructed the
\* client ends with close() executed.
C20_Terminates ==
    <>(/\ pc = "Done"
       /\ exit.kind \in {"returned", "raised"}
       /\ Count("RefillerClient") > 0 => Count("close") = 1)

\* main() has ended by letting a cancellation through, after closing the
\* client.
C20_Witness ==
    /\ pc = "Done"
    /\ exit.kind = "raised"
    /\ exit.exc.type = "CancelledError"
    /\ Count("close") = 1

(***************************************************************************)
(* The single handler of main()                                            *)
(***************************************************************************)
ErrorRecords == {k \in DOMAIN log : log[k].level = "ERROR"}

\* C21: an error raised by request_refill after a successful login is
\* logged by the same handler as an error raised by login: the only ERROR
\* record of the run is "Login failed: <message>", whichever call raised,
\* and after a refill error neither the refill-success nor the
\* refill-failure message is logged.
C21_SingleHandlerForBothCalls ==
    /\ \A d \in CallsDone :
          (Raised(d) /\ d.result.exc.type \in NamedErrorTypes) =>
              /\ ErrorRecords = {Len(log)}
              /\ log[Len(log)].msg = "Login failed: " \o d.result.exc.msg
    /\ \A d \in RefillDone :
          (Raised(d) /\ d.result.exc.type \in NamedErrorTypes) =>
              /\ \E k \in DOMAIN log :
                    log[k].msg = "Login successful, requesting medication refill..."
              /\ \A k \in DOMAIN log :
                    /\ log[k].msg # "Medication refill request successful!"
                    /\ log[k].msg # "Medication refill request failed..."

\* login returned a credential, request_refill raised the HTTP error for a
\* 500 response, and main() has ended with "Login failed: ..." as its last
\* log record.
C21_Witness ==
    /\ pc = "Done"
    /\ \E d \in LoginDone : Returned(d)
    /\ \E d \in RefillDone :
          /\ Raised(d)
          /\ d.outcome.net = "response"
          /\ d.outcome.status = 500
    /\ log[Len(log)] = [level |-> "ERROR", msg |-> "Login failed: 500, message=''"]

(***************************************************************************)
(* Config.from_toml on its own: one call on one document.                  *)
(***************************************************************************)
ConfigPaths == {CONFIG_PATH, "/tmp/non_existent_config_xyz.toml"}

\* Per key: not in the file, or one of the TOML values below.
TomlChoices(k) ==
    IF k = "extra" THEN {Absent, PyStr(SampleValue[k])}
    ELSE {Absent, PyStr(""), PyStr(SampleValue[k]), PyInt(0), PyInt(123),
          PyBool(TRUE), PyList(<<>>)}

TomlTables ==
    {Table(choice) :
       choice \in [username : TomlChoices("username"),
                   password : TomlChoices("password"),
                   base_url : TomlChoices("base_url"),
                   med_id : TomlChoices("med_id"),
                   office : TomlChoices("office"),
                   extra : TomlChoices("extra")]}

TomlDocuments ==
    {[path |-> p, exists |-> FALSE, parses |-> FALSE, table |-> <<>>] :
        p \in ConfigPaths}
    \cup {[path |-> p, exists |-> TRUE, parses |-> FALSE, table |-> <<>>] :
            p \in ConfigPaths}
    \cup {[path |-> CONFIG_PATH, exists |-> TRUE, parses |-> TRUE, table |-> t] :
            t \in TomlTables}

ConfigInit ==
    /\ document \in TomlDocuments
    /\ pc = "Idle"
    /\ config = NoConfig
    /\ session = "none"
    /\ cookie = PyNone
    /\ requests = <<>>
    /\ history = <<>>
    /\ log = <<>>
    /\ pending = NoExc
    /\ exit = [kind |-> "running"]

\* A caller evaluates Config.from_toml(document.path).
ConfigLoad ==
    /\ pc = "Idle"
    /\ LET r == from_toml(document) IN
       /\ history' = Append(history, [ev |-> "from_toml", result |-> r])
       /\ config' = IF r.kind = "return" THEN r.value ELSE config
    /\ pc' = "Loaded"
    /\ UNCHANGED <<document, session, cookie, requests, log, pending, exit>>

ConfigNext == ConfigLoad

ConfigSpec == ConfigInit /\ [][ConfigNext]_vars

\* The call of from_toml made so far, if any.
Loaded == {history[i] : i \in Positions("from_toml")}

\* t occurs in s.
Contains(s, t) ==
    \E i \in 1..(Len(s) - Len(t) + 1) : SubSeq(s, i, i + Len(t) - 1) = t

Parsed == document.exists /\ document.parses

MissingOrEmptyString(f) ==
    f \notin DOMAIN document.table \/ document.table[f] = [py |-> "str", v |-> ""]

\* Present with a value that is not empty: a non-empty string, a non-zero
\* number, true, or a non-empty list.
PresentNonEmpty(f) ==
    /\ f \in DOMAIN document.table
    /\ LET x == document.table[f] IN
       \/ x.py = "str" /\ x.v # ""
       \/ x.py = "int" /\ x.v # 0
       \/ x.py = "bool" /\ x.v = TRUE
       \/ x.py = "list" /\ x.v # <<>>

FieldNames == {"username", "password", "base_url", "med_id", "office"}

\* C12: for a parsed document with a required field missing or holding the
\* empty string, from_toml raises the missing-or-empty ValueError, whose
\* message names every such field and no field that is present and non-empty.
C12_ErrorNamesEveryOffendingField ==
    \A d \in Loaded :
        (Parsed /\ \E f \in FieldNames : MissingOrEmptyString(f)) =>
            /\ Raised(d)
            /\ d.result.exc.type = "ValueError"
            /\ Contains(d.result.exc.msg, "Missing or empty required fields")
            /\ \A f \in FieldNames :
                  /\ MissingOrEmptyString(f) => Contains(d.result.exc.msg, f)
                  /\ PresentNonEmpty(f) => ~Contains(d.result.exc.msg, f)

\* from_toml has raised for a document that lacks med_id and office, holds
\* an empty password, and holds username and base_url.
C12_Witness ==
    /\ Parsed
    /\ DOMAIN document.table = {"username", "password", "base_url"}
    /\ document.table["password"] = [py |-> "str", v |-> ""]
    /\ PresentNonEmpty("username")
    /\ PresentNonEmpty("base_url")
    /\ \E d \in Loaded : Raised(d)

AllFieldsNonEmptyStrings ==
    \A f \in FieldNames :
        /\ f \in DOMAIN document.table
        /\ document.table[f].py = "str"
        /\ document.table[f].v # ""

\* C13: for a document whose five required fields are non-empty strings,
\* with or without an unknown field, from_toml returns a Config whose five
\* fields equal the supplied values and that has no other field.
C13_ValidDocumentRoundTrips ==
    \A d \in Loaded :
        (Parsed /\ AllFieldsNonEmptyStrings) =>
            /\ Returned(d)
            /\ DOMAIN d.result.value = FieldNames
            /\ \A f \in FieldNames : d.result.value[f] = document.table[f]
            /\ config = d.result.value

\* from_toml has returned for a valid document that carries an unknown field.
C13_Witness ==
    /\ Parsed
    /\ AllFieldsNonEmptyStrings
    /\ "extra" \in DOMAIN document.table
    /\ \E d \in Loaded : Returned(d) /\ d.result.value.med_id.v = "aspirin"

\* C14: every Config that from_toml returns holds a non-empty string in each
\* of its five fields.
C14_ConfigFieldsAreNonEmptyStrings ==
    \A d \in Loaded :
        Returned(d) =>
            \A f \in FieldNames :
                /\ d.result.value[f].py = "str"
                /\ d.result.value[f].v # ""

\* C15: when no file exists at the path, from_toml raises FileNotFoundError
\* with a message that contains the path; the error is neither the
\* missing-or-empty ValueError nor a parse error, and no Config is produced.
C15_MissingFileNamesPath ==
    \A d \in Loaded :
        ~document.exists =>
            /\ Raised(d)
            /\ d.result.exc.type = "FileNotFoundError"
            /\ Contains(d.result.exc.msg, document.path)
            /\ ~Contains(d.result.exc.msg, "Missing or empty required fields")
            /\ config = NoConfig

\* from_toml has raised for the absent file /tmp/non_existent_config_xyz.toml.
C15_Witness ==
    /\ ~document.exists
    /\ document.path = "/tmp/non_existent_config_xyz.toml"
    /\ \E d \in Loaded : Raised(d)

(***************************************************************************)
(* RefillerClient on its own: a caller that holds one client and calls its *)
(* methods in any order, awaiting each call before the next.               *)
(***************************************************************************)
\* Outcomes of a POST the caller meets.
ClientOutcomes ==
    {o \in PostOutcomes :
        \/ /\ o.net = "response"
           /\ o.status \in {200, 301, 404}
           /\ o.headers \in {<<>>, ("Set-Cookie" :> "s=1")}
        \/ /\ o.net = "error"
           /\ o.exc.type = "ClientConnectorError"}

\* aiohttp ClientSession.post on a closed session: raises RuntimeError
\* before anything is sent.
SessionClosed ==
    [net |-> "error", exc |-> [type |-> "RuntimeError", msg |-> "Session is closed"]]

ClientConfig ==
    [f \in RequiredSet |-> PyStr(SampleValue[f])]

ClientCalls == Count("login") + Count("request_refill") + Count("close")

ClientInit ==
    /\ document \in {d \in Documents : from_toml(d) = Return(ClientConfig)}
    /\ pc = "Client"
    /\ config = ClientConfig
    /\ session = "open"
    /\ cookie = PyNone
    /\ requests = <<>>
    /\ history = <<[ev |-> "RefillerClient", base_url |-> ClientConfig.base_url]>>
    /\ log = <<>>
    /\ pending = NoExc
    /\ exit = [kind |-> "running"]

\* await client.login(username, password, office)
ClientLogin ==
    /\ pc = "Client"
    /\ ClientCalls < MaxClientCalls
    /\ \E o \in ClientOutcomes :
         LET outcome == IF session = "open" THEN o ELSE SessionClosed
             r == login(outcome)
         IN /\ history' = history \o
                   <<[ev |-> "login",
                      args |-> <<config.username, config.password, config.office>>],
                     [ev |-> "login_done", outcome |-> outcome, result |-> r]>>
            /\ requests' =
                   IF session = "open"
                   THEN Append(requests,
                               login_request(config.base_url, config.username,
                                             config.password, config.office))
                   ELSE requests
            /\ cookie' = IF r.kind = "return" THEN r.value ELSE cookie
    /\ UNCHANGED <<document, pc, config, session, log, pending, exit>>

\* await client.request_refill(cookie, med)
ClientRequestRefill ==
    /\ pc = "Client"
    /\ ClientCalls < MaxClientCalls
    /\ \E o \in ClientOutcomes, c \in {cookie, PyStr("session_id=abc123")} :
         LET outcome == IF session = "open" THEN o ELSE SessionClosed
             r == request_refill(outcome)
         IN /\ c # PyNone
            /\ history' = history \o
                   <<[ev |-> "request_refill", args |-> <<c, config.med_id>>],
                     [ev |-> "request_refill_done", outcome |-> outcome, result |-> r]>>
            /\ requests' =
                   IF session = "open"
                   THEN Append(requests,
                               refill_request(config.base_url, c, config.med_id))
                   ELSE requests
    /\ UNCHANGED <<document, pc, config, session, cookie, log, pending, exit>>

\* Variant of close() that raises when the session is already closed.
ClientCloseStrict ==
    /\ pc = "Client"
    /\ ClientCalls < MaxClientCalls
    /\ history' = Append(history,
           [ev |-> "close",
            result |-> IF session = "closed"
                       THEN Raise([type |-> "RuntimeError",
                                   msg |-> "Session is closed"])
                       ELSE Return(PyNone)])
    /\ session' = close(session)
    /\ UNCHANGED <<document, pc, config, cookie, requests, log, pending, exit>>

\* await client.close() (refiller_client.py lines 53-54): aiohttp's
\* ClientSession.close() releases the connector, or does nothing when the
\* session is closed already; it sends nothing.
ClientClose ==
    /\ pc = "Client"
    /\ ClientCalls < MaxClientCalls
    /\ history' = Append(history, [ev |-> "close", result |-> Return(PyNone)])
    /\ session' = close(session)
    /\ UNCHANGED <<document, pc, config, cookie, requests, log, pending, exit>>

ClientNext ==
    \/ ClientLogin
    \/ ClientRequestRefill
    \/ ClientClose

ClientSpec == ClientInit /\ [][ClientNext]_vars

\* The step is a call of close().
CloseStep == Len(history') = Len(history) + 1 /\ history'[Len(history')].ev = "close"

\* C16: a call of close(), whatever was called before it, returns without
\* raising, sends no request and leaves the session closed; on a session
\* that is closed already it changes neither the session nor the requests.
C16_CloseIdempotent ==
    [][CloseStep =>
          /\ history'[Len(history')].result.kind = "return"
          /\ requests' = requests
          /\ session' = "closed"
          /\ session = "closed" => (session' = session /\ cookie' = cookie)]_vars

\* close() has been called twice after a login, and the session is closed.
C16_Witness ==
    /\ Count("close") = 2
    /\ Count("login") = 1
    /\ history[Len(history)].ev = "close"
    /\ history[Len(history)].result.kind = "return"
    /\ session = "closed"
    /\ Len(requests) = 1

====
